---- MODULE Spec2Model ----
(***************************************************************************)
(* Model of main.py (LRTagRaw): the batch driver, process_image and its    *)
(* stages, query_llava's consumption of the streamed answer, and           *)
(* clean_tags.  Python strings are sequences of one-character strings.     *)
(***************************************************************************)
EXTENDS Integers, Sequences, FiniteSets, TLC

VARIABLES
    image_files,    \* __main__: the list built from os.listdir(input_folder)
    idx,            \* __main__: position of the for loop (0 before the first call)
    dpc,            \* __main__: "boot" | "loop" | "call" | "finished" | "crashed"
    pc,             \* process_image: state of the running invocation
    task,           \* process_image: filename, base_filename, unique_id, jpeg_path, tags
    now,            \* last value read from time.time(), in whole seconds
    calls,          \* history: the arguments of the process_image calls made
    previews,       \* output directory: preview path -> the source it renders
    sidecars,       \* output directory: sidecar path -> text content
    metadata,       \* sequence of exiftool mutations [path, subject]
    log,            \* root logger: sequence of [level, src, img]
    steps,          \* history: sequence of [img, step, ok] of the stages run
    q_pc, q_stream, q_fault, q_out,     \* one query_llava call on its own
    c_pc, c_x, c_out, c_out2            \* clean_tags applied to one response

pipeVars == <<image_files, idx, dpc, pc, task, now, calls, previews, sidecars,
              metadata, log, steps>>
queryVars == <<q_pc, q_stream, q_fault, q_out>>
cleanVars == <<c_pc, c_x, c_out, c_out2>>
vars == <<pipeVars, queryVars, cleanVars>>

(***************************************************************************)
(* Bounds of the model.                                                    *)
(***************************************************************************)
MaxFiles == 2      \* entries of the input directory besides the output folder
MaxClock == 1      \* time.time() readings range over 0..MaxClock
MaxStream == 3     \* lines of one streamed answer
MaxTokens == 3     \* tokens concatenated into one clean_tags input

(***************************************************************************)
(* str methods used by the program.                                        *)
(***************************************************************************)
SP == " "
NL == "\n"

RECURSIVE LStrip(_)
LStrip(s) == IF s # <<>> /\ s[1] = SP THEN LStrip(Tail(s)) ELSE s

RECURSIVE RStrip(_)
RStrip(s) ==
    IF s # <<>> /\ s[Len(s)] = SP THEN RStrip(SubSeq(s, 1, Len(s) - 1)) ELSE s

\* str.strip()
Strip(s) == RStrip(LStrip(s))

\* str.split(sep) for a one-character sep: the fields, empty ones included
RECURSIVE SplitFrom(_, _, _)
SplitFrom(s, sep, cur) ==
    IF s = <<>> THEN <<cur>>
    ELSE IF s[1] = sep THEN <<cur>> \o SplitFrom(Tail(s), sep, <<>>)
    ELSE SplitFrom(Tail(s), sep, Append(cur, s[1]))

Split(s, sep) == SplitFrom(s, sep, <<>>)

\* ch in s
Contains(s, ch) == \E i \in 1..Len(s) : s[i] = ch

\* s.split(sep, 1)[1]: what follows the first sep
RECURSIVE AfterFirst(_, _)
AfterFirst(s, sep) ==
    IF s = <<>> THEN <<>>
    ELSE IF s[1] = sep THEN Tail(s)
    ELSE AfterFirst(Tail(s), sep)

StartsWith(s, p) == Len(s) >= Len(p) /\ SubSeq(s, 1, Len(p)) = p

\* str.replace(old, new), old non-empty: every non-overlapping occurrence,
\* scanning from the left
RECURSIVE Replace(_, _, _)
Replace(s, old, new) ==
    IF Len(s) < Len(old) THEN s
    ELSE IF StartsWith(s, old)
         THEN new \o Replace(SubSeq(s, Len(old) + 1, Len(s)), old, new)
    ELSE <<s[1]>> \o Replace(Tail(s), old, new)

\* sep.join(parts), parts a sequence of strings
RECURSIVE Join(_, _)
Join(parts, sep) ==
    IF parts = <<>> THEN <<>>
    ELSE IF Len(parts) = 1 THEN parts[1]
    ELSE parts[1] \o sep \o Join(Tail(parts), sep)

\* iterating a str yields its characters, each a str of length one
Chars(s) == [i \in 1..Len(s) |-> <<s[i]>>]

Range(f) == {f[i] : i \in DOMAIN f}

(***************************************************************************)
(* clean_tags                                                              *)
(***************************************************************************)
HAIR_COLOR == <<"h","a","i","r","_","c","o","l","o","r">>
EYE_COLOR == <<"e","y","e","_","c","o","l","o","r">>
SCENE == <<"s","c","e","n","e">>
LIGHTING == <<"l","i","g","h","t","i","n","g">>
BACKGROUND == <<"b","a","c","k","g","r","o","u","n","d">>
HAIR == <<"h","a","i","r">>
EYES == <<"e","y","e","s">>

\* the corrections dict, in insertion order
corrections ==
    << <<HAIR_COLOR, HAIR>>, <<EYE_COLOR, EYES>>, <<SCENE, <<>> >>,
       <<LIGHTING, <<>> >>, <<BACKGROUND, <<>> >> >>

\* tags = [tag.strip() for tag in tags_response.split(",") if tag.strip()]
RECURSIVE StrippedNonEmpty(_)
StrippedNonEmpty(parts) ==
    IF parts = <<>> THEN <<>>
    ELSE IF Strip(parts[1]) # <<>>
         THEN <<Strip(parts[1])>> \o StrippedNonEmpty(Tail(parts))
    ELSE StrippedNonEmpty(Tail(parts))

\* if ":" in tag: key, value = tag.split(":", 1); tag = value.strip()
KeepValue(tag) == IF Contains(tag, ":") THEN Strip(AfterFirst(tag, ":")) ELSE tag

\* for old, new in corrections.items(): tag = tag.replace(f"{old}_", new).strip()
RECURSIVE ApplyCorrections(_, _)
ApplyCorrections(tag, i) ==
    IF i > Len(corrections) THEN tag
    ELSE ApplyCorrections(
            Strip(Replace(tag, corrections[i][1] \o <<"_">>, corrections[i][2])),
            i + 1)

\* the body of the loop over tags
CleanOne(tag) == Strip(Replace(ApplyCorrections(KeepValue(tag), 1), <<"_">>, <<SP>>))

\* list(set(clean_tags)): the order of the result is unspecified
clean_tags(tags_response) ==
    LET tags == StrippedNonEmpty(Split(tags_response, ","))
    IN  {CleanOne(tags[i]) : i \in 1..Len(tags)}

(***************************************************************************)
(* query_llava: one streamed answer.  A line of the stream is blank, is    *)
(* not JSON, or is a JSON object holding some of the keys response, done.  *)
(* q_fault = -1: the transport never fails; 0: requests.post raises;       *)
(* k >= 1: iter_lines raises instead of delivering line k.                 *)
(***************************************************************************)
FragA == <<"A">>
FragB == <<"B">>

BlankLine == [kind |-> "blank", keys |-> {}, response |-> <<>>, done |-> FALSE]
GarbageLine == [kind |-> "garbage", keys |-> {}, response |-> <<>>, done |-> FALSE]
ObjLines ==
    {[kind |-> "obj", keys |-> k, response |-> r, done |-> d] :
        k \in SUBSET {"response", "done"}, r \in {<<>>, FragA, FragB},
        d \in BOOLEAN}
Lines ==
    {BlankLine, GarbageLine} \cup
    {l \in ObjLines : /\ ("response" \in l.keys) = (l.response # <<>>)
                      /\ ("done" \notin l.keys) => ~l.done}

Streams == UNION {[1..n -> Lines] : n \in 0..MaxStream}

\* chunk.get("response", "")
GetResponse(chunk) == IF "response" \in chunk.keys THEN chunk.response ELSE <<>>

\* variant: the loop never looks at done
GetDoneMut(chunk) == FALSE
\* chunk.get("done", False)
GetDone(chunk) == IF "done" \in chunk.keys THEN chunk.done ELSE FALSE

\* the for loop over response.iter_lines(): ok = FALSE when an exception
\* left the loop, full = full_response at that point
RECURSIVE IterLines(_, _, _, _)
IterLines(stream, i, full, fault) ==
    IF fault = i THEN [ok |-> FALSE, full |-> full]
    ELSE IF i > Len(stream) THEN [ok |-> TRUE, full |-> full]
    ELSE IF stream[i].kind = "blank" THEN IterLines(stream, i + 1, full, fault)
    ELSE IF stream[i].kind = "garbage" THEN [ok |-> FALSE, full |-> full]
    ELSE LET full2 == full \o GetResponse(stream[i])
         IN  IF GetDone(stream[i]) THEN [ok |-> TRUE, full |-> full2]
             ELSE IterLines(stream, i + 1, full2, fault)

\* variant: the except branch returns what was accumulated
QueryExceptMut(full) ==
    [result |-> full, log |-> <<"ERROR">>, raised |-> FALSE]
\* the except branch: log_error(...); return ""
QueryExcept(full) ==
    [result |-> <<>>, log |-> <<"ERROR">>, raised |-> FALSE]

\* the normal exit: log_info(...); return full_response
QueryReturn(full) ==
    [result |-> full, log |-> <<"INFO">>, raised |-> FALSE]

query_llava(stream, fault) ==
    IF fault = 0 THEN QueryExcept(<<>>)
    ELSE LET r == IterLines(stream, 1, <<>>, fault)
         IN  IF r.ok THEN QueryReturn(r.full) ELSE QueryExcept(r.full)

NoOut == [result |-> <<>>, log |-> <<>>, raised |-> FALSE]

(***************************************************************************)
(* The input directory.  os.listdir returns its entries in arbitrary       *)
(* order; the output folder images/temp, created at import, is one of them.*)
(***************************************************************************)
File(b, e) == [base |-> b, ext |-> e]
TempDir == File("temp", "")
SourceNames == {File("a", "jpg"), File("a", "CR3"), File("b", "cr3")}
Entries == SourceNames \cup {TempDir}

Listings ==
    {l \in UNION {[1..n -> Entries] : n \in 1..(MaxFiles + 1)} :
        /\ \A i, j \in DOMAIN l : i # j => l[i] # l[j]
        /\ TempDir \in Range(l)}

\* str.lower() on the extensions that occur
Lower(e) == IF e = "CR3" THEN "cr3" ELSE e

\* filename.lower().endswith('.cr3')
IsRaw(filename) == Lower(filename.ext) = "cr3"

\* os.path.join(output_folder, f"{base_filename}_{unique_id}<suffix>")
OutPath(base_filename, unique_id, suffix) == <<base_filename, unique_id, suffix>>

NoPath == <<>>
NoTask ==
    [filename |-> TempDir, base_filename |-> "", unique_id |-> 0,
     jpeg_path |-> NoPath, output_file |-> NoPath, tags |-> <<>>]

\* a file of the output folder created or overwritten
WriteFile(dir, path, content) ==
    [p \in DOMAIN dir \cup {path} |-> IF p = path THEN content ELSE dir[p]]

Entry(level, src, img) == [level |-> level, src |-> src, img |-> img]
Step(img, step, outcome) == [img |-> img, step |-> step, outcome |-> outcome]

\* the streamed answers the inference endpoint gives inside the pipeline
Obj(r, d) == [kind |-> "obj", keys |-> {"response", "done"}, response |-> r, done |-> d]
TagsAnswer == <<Obj(<<"a", "b">>, FALSE), Obj(<<",", "c">>, TRUE)>>
EmptyAnswer == <<[kind |-> "obj", keys |-> {"done"}, response |-> <<>>, done |-> TRUE]>>
PipeAnswers == {TagsAnswer, EmptyAnswer}

\* f.write("\n".join(tags)), tags being the str query_llava returned
SidecarText(tags) == Join(Chars(tags), <<NL>>)

\* tags_str = ", ".join(tags) in add_tags_to_image
SubjectText(tags) == Join(Chars(tags), <<",", SP>>)

\* variant: no try/except around the body of process_image
CatchAllMut(img) == [pc |-> "Escaped", log |-> <<>>]
\* except Exception as e: log_error(...) at the end of process_image
CatchAll(img) ==
    [pc |-> "Aborted", log |-> <<Entry("ERROR", "process_image", img)>>]

Returned == pc \in {"Idle", "Done", "Aborted"}

(***************************************************************************)
(* __main__ and process_image                                              *)
(***************************************************************************)
PipeInit ==
    /\ image_files \in Listings
    /\ idx = 0
    /\ dpc = "boot"
    /\ pc = "Idle"
    /\ task = NoTask
    /\ now = 0
    /\ calls = <<>>
    /\ previews = <<>>
    /\ sidecars = <<>>
    /\ metadata = <<>>
    /\ log = <<>>
    /\ steps = <<>>

QueryIdle == q_pc = "off" /\ q_stream = <<>> /\ q_fault = -1 /\ q_out = NoOut
CleanIdle == c_pc = "off" /\ c_x = <<>> /\ c_out = {} /\ c_out2 = {}

Init == PipeInit /\ QueryIdle /\ CleanIdle

\* log_info("Démarrage du traitement des images."); image_files = [...]
Boot ==
    /\ dpc = "boot"
    /\ dpc' = "loop"
    /\ log' = Append(log, Entry("INFO", "main", 0))
    /\ UNCHANGED <<image_files, idx, pc, task, now, calls, previews, sidecars,
                   metadata, steps>>
    /\ UNCHANGED <<queryVars, cleanVars>>

\* for image_file in image_files: process_image(image_file), up to the
\* first log_info of process_image
CallProcessImage ==
    /\ dpc = "loop" /\ Returned
    /\ idx < Len(image_files)
    /\ idx' = idx + 1
    /\ calls' = Append(calls, image_files[idx + 1])
    /\ \E t \in now..MaxClock :
        /\ now' = t
        /\ task' = [filename |-> image_files[idx + 1],
                    base_filename |-> image_files[idx + 1].base,
                    unique_id |-> t,
                    jpeg_path |-> NoPath, output_file |-> NoPath,
                    tags |-> <<>>]
    /\ log' = Append(log, Entry("INFO", "process_image", idx + 1))
    /\ pc' = "Start"
    /\ UNCHANGED <<image_files, dpc, previews, sidecars, metadata, steps>>
    /\ UNCHANGED <<queryVars, cleanVars>>

\* variant: only process_image logs the failed conversion
ConvertFailedMut(img) ==
    [pc |-> "Aborted", log |-> <<Entry("ERROR", "process_image", img)>>]
\* convert_raw_to_jpeg's except branch, then "if not convert_raw_to_jpeg(...):
\* log_error(...); return"
ConvertFailed(img) ==
    [pc |-> "Aborted",
     log |-> <<Entry("ERROR", "convert_raw_to_jpeg", img),
               Entry("ERROR", "process_image", img)>>]

\* the .cr3 branch: convert_raw_to_jpeg(image_path, jpeg_path)
NormalizeRaw ==
    /\ pc = "Start" /\ IsRaw(task.filename)
    /\ LET jp == OutPath(task.base_filename, task.unique_id, "_preview.jpg")
       IN  /\ task' = [task EXCEPT !.jpeg_path = jp]
           /\ \E outcome \in {"ok", "unreadable", "unwritable"} :
                /\ steps' = Append(steps, Step(idx, "normalize", outcome))
                /\ IF outcome = "ok"
                   THEN /\ previews' = WriteFile(previews, jp, task.filename)
                        /\ log' = Append(log, Entry("INFO", "convert_raw_to_jpeg", idx))
                        /\ pc' = "Normalized"
                   ELSE /\ previews' = previews
                        /\ log' = log \o ConvertFailed(idx).log
                        /\ pc' = ConvertFailed(idx).pc
    /\ UNCHANGED <<image_files, idx, dpc, now, calls, sidecars, metadata>>
    /\ UNCHANGED <<queryVars, cleanVars>>

\* the else branch: Image.open(image_path).save(jpeg_path, "JPEG", quality=90);
\* the output folder itself is an entry no image can be read from
NormalizeStandard ==
    /\ pc = "Start" /\ ~IsRaw(task.filename)
    /\ LET jp == OutPath(task.base_filename, task.unique_id, ".jpg")
       IN  /\ task' = [task EXCEPT !.jpeg_path = jp]
           /\ \E outcome \in {"ok", "unreadable", "unwritable"} :
                /\ task.filename = TempDir => outcome = "unreadable"
                /\ steps' = Append(steps, Step(idx, "normalize", outcome))
                /\ IF outcome = "ok"
                   THEN /\ previews' = WriteFile(previews, jp, task.filename)
                        /\ log' = log
                        /\ pc' = "Normalized"
                   ELSE /\ previews' = previews
                        /\ log' = log \o CatchAll(idx).log
                        /\ pc' = CatchAll(idx).pc
    /\ UNCHANGED <<image_files, idx, dpc, now, calls, sidecars, metadata>>
    /\ UNCHANGED <<queryVars, cleanVars>>

\* variant: the return after a failed encoding is missing
EncodeFailedMut(img) ==
    [pc |-> "Encoded", log |-> <<Entry("ERROR", "encode_image", img)>>]
\* encode_image's except branch, then "if not image_base64: log_error(...);
\* return"
EncodeFailed(img) ==
    [pc |-> "Aborted",
     log |-> <<Entry("ERROR", "encode_image", img),
               Entry("ERROR", "process_image", img)>>]

\* image_base64 = encode_image(jpeg_path)
Encode ==
    /\ pc = "Normalized"
    /\ \E outcome \in {"ok", "unreadable"} :
        /\ steps' = Append(steps, Step(idx, "encode", outcome))
        /\ IF outcome = "ok"
           THEN /\ log' = Append(log, Entry("INFO", "encode_image", idx))
                /\ pc' = "Encoded"
           ELSE /\ log' = log \o EncodeFailed(idx).log
                /\ pc' = EncodeFailed(idx).pc
    /\ UNCHANGED <<image_files, idx, dpc, task, now, calls, previews, sidecars,
                   metadata>>
    /\ UNCHANGED <<queryVars, cleanVars>>

\* variant: an empty answer ends the invocation
AfterQueryMut(tags_response) == IF tags_response = <<>> THEN "Aborted" ELSE "Queried"
\* tags = tags_response: the answer is used whatever it is
AfterQuery(tags_response) == "Queried"

\* tags_response = query_llava(image_base64, prompt); tags = tags_response
Query ==
    /\ pc = "Encoded"
    /\ \E stream \in PipeAnswers, fault \in {-1, 0, 2} :
        LET r == query_llava(stream, fault)
        IN  /\ task' = [task EXCEPT !.tags = r.result]
            /\ log' = log \o [i \in 1..Len(r.log) |-> Entry(r.log[i], "query_llava", idx)]
            /\ steps' = Append(steps, Step(idx, "query",
                            IF r.log = <<"INFO">> THEN "ok" ELSE "failed"))
            /\ pc' = AfterQuery(r.result)
    /\ UNCHANGED <<image_files, idx, dpc, now, calls, previews, sidecars, metadata>>
    /\ UNCHANGED <<queryVars, cleanVars>>

\* with open(output_file, "w") as f: f.write("\n".join(tags))
WriteSidecar ==
    /\ pc = "Queried"
    /\ LET of == OutPath(task.base_filename, task.unique_id, ".txt")
       IN  /\ task' = [task EXCEPT !.output_file = of]
           /\ \E outcome \in {"ok", "unwritable"} :
                /\ steps' = Append(steps, Step(idx, "sidecar", outcome))
                /\ IF outcome = "ok"
                   THEN /\ sidecars' = WriteFile(sidecars, of, SidecarText(task.tags))
                        /\ log' = log
                        /\ pc' = "TaggedAndSaved"
                   ELSE /\ sidecars' = sidecars
                        /\ log' = log \o CatchAll(idx).log
                        /\ pc' = CatchAll(idx).pc
    /\ UNCHANGED <<image_files, idx, dpc, now, calls, previews, metadata>>
    /\ UNCHANGED <<queryVars, cleanVars>>

\* add_tags_to_image(jpeg_path, tags): logs its own failure and returns
AddTags ==
    /\ pc = "TaggedAndSaved"
    /\ \E outcome \in {"ok", "tool_failed"} :
        /\ steps' = Append(steps, Step(idx, "metadata", outcome))
        /\ IF outcome = "ok"
           THEN /\ metadata' = Append(metadata,
                        [path |-> task.jpeg_path, subject |-> SubjectText(task.tags)])
                /\ log' = Append(log, Entry("INFO", "add_tags_to_image", idx))
           ELSE /\ metadata' = metadata
                /\ log' = Append(log, Entry("ERROR", "add_tags_to_image", idx))
    /\ pc' = "MetadataWritten"
    /\ UNCHANGED <<image_files, idx, dpc, task, now, calls, previews, sidecars>>
    /\ UNCHANGED <<queryVars, cleanVars>>

\* the two closing log_info calls of process_image
Finish ==
    /\ pc = "MetadataWritten"
    /\ log' = log \o <<Entry("INFO", "process_image", idx),
                       Entry("INFO", "process_image", idx)>>
    /\ pc' = "Done"
    /\ UNCHANGED <<image_files, idx, dpc, task, now, calls, previews, sidecars,
                   metadata, steps>>
    /\ UNCHANGED <<queryVars, cleanVars>>

\* log_info("Traitement terminé.")
Terminate ==
    /\ dpc = "loop" /\ Returned
    /\ idx = Len(image_files)
    /\ dpc' = "finished"
    /\ log' = Append(log, Entry("INFO", "main", 0))
    /\ UNCHANGED <<image_files, idx, pc, task, now, calls, previews, sidecars,
                   metadata, steps>>
    /\ UNCHANGED <<queryVars, cleanVars>>

Next ==
    \/ Boot
    \/ CallProcessImage
    \/ NormalizeRaw
    \/ NormalizeStandard
    \/ Encode
    \/ Query
    \/ WriteSidecar
    \/ AddTags
    \/ Finish
    \/ Terminate

Spec == Init /\ [][Next]_vars

\* one thread runs the script: whenever a step is possible, one is taken
FairSpec == Spec /\ WF_vars(Next)

(***************************************************************************)
(* query_llava on its own: every stream of at most MaxStream lines, with   *)
(* every place at which the transport can fail.                            *)
(***************************************************************************)
PipeIdle ==
    /\ image_files = <<TempDir>>
    /\ idx = 0
    /\ dpc = "boot"
    /\ pc = "Idle"
    /\ task = NoTask
    /\ now = 0
    /\ calls = <<>>
    /\ previews = <<>>
    /\ sidecars = <<>>
    /\ metadata = <<>>
    /\ log = <<>>
    /\ steps = <<>>

QueryInit ==
    /\ q_pc = "ready"
    /\ q_stream \in Streams
    /\ q_fault \in -1..(Len(q_stream) + 1)
    /\ q_out = NoOut

InitQuery == PipeIdle /\ QueryInit /\ CleanIdle

QueryCall ==
    /\ q_pc = "ready"
    /\ q_out' = query_llava(q_stream, q_fault)
    /\ q_pc' = "returned"
    /\ UNCHANGED <<q_stream, q_fault>>
    /\ UNCHANGED <<pipeVars, cleanVars>>

NextQuery == QueryCall

SpecQuery == InitQuery /\ [][NextQuery]_vars

(***************************************************************************)
(* clean_tags on its own: every response made of at most MaxTokens tokens, *)
(* cleaned once and then cleaned again after a comma join.                 *)
(***************************************************************************)
Tokens ==
    {HAIR_COLOR \o <<"_">>, EYE_COLOR \o <<"_">>, SCENE \o <<"_">>,
     LIGHTING \o <<"_">>, BACKGROUND \o <<"_">>, <<"r", "e", "d">>,
     <<",">>, <<":">>, <<"_">>, <<SP>>}

RECURSIVE Concat(_)
Concat(parts) == IF parts = <<>> THEN <<>> ELSE parts[1] \o Concat(Tail(parts))

Responses == {Concat(ts) : ts \in UNION {[1..n -> Tokens] : n \in 0..MaxTokens}}

\* the lists a set of tags can be turned into by list(set(...))
Orders(S) == {o \in [1..Cardinality(S) -> S] : Range(o) = S}

CleanInit ==
    /\ c_pc = "ready"
    /\ c_x \in Responses
    /\ c_out = {}
    /\ c_out2 = {}

InitClean == PipeIdle /\ QueryIdle /\ CleanInit

CleanCall ==
    /\ c_pc = "ready"
    /\ c_out' = clean_tags(c_x)
    /\ c_pc' = "cleaned"
    /\ UNCHANGED <<c_x, c_out2>>
    /\ UNCHANGED <<pipeVars, queryVars>>

CleanAgain ==
    /\ c_pc = "cleaned"
    /\ \E o \in Orders(c_out) : c_out2' = clean_tags(Join(o, <<",">>))
    /\ c_pc' = "recleaned"
    /\ UNCHANGED <<c_x, c_out>>
    /\ UNCHANGED <<pipeVars, queryVars>>

NextClean == CleanCall \/ CleanAgain

SpecClean == InitClean /\ [][NextClean]_vars

(***************************************************************************)
(* Properties of the pipeline (Spec, FairSpec)                             *)
(***************************************************************************)
RECURSIVE StepsOf(_, _)
StepsOf(hist, i) ==
    IF hist = <<>> THEN <<>>
    ELSE IF hist[1].img = i THEN <<hist[1]>> \o StepsOf(Tail(hist), i)
    ELSE StepsOf(Tail(hist), i)

Ran(i, step) == \E k \in DOMAIN steps : steps[k].img = i /\ steps[k].step = step
RanOk(i, step) ==
    \E k \in DOMAIN steps :
        steps[k].img = i /\ steps[k].step = step /\ steps[k].outcome = "ok"
Failed(i) == \E k \in DOMAIN steps : steps[k].img = i /\ steps[k].outcome # "ok"

LogOf(i, level, src) ==
    {k \in DOMAIN log : log[k].img = i /\ log[k].level = level /\ log[k].src = src}
ErrorsOf(i) == {k \in DOMAIN log : log[k].img = i /\ log[k].level = "ERROR"}

\* the state the driver is in between two statements of the script
Running == dpc # "finished"

\* C1 (safety part): no exception leaves process_image; the calls made so
\* far are the first idx entries of the listing, each once and in order;
\* the script is never stuck before its last statement; and once it is
\* finished every entry has been passed to process_image.
C1_Isolation ==
    /\ pc # "Escaped"
    /\ calls = SubSeq(image_files, 1, idx)
    /\ Running => ENABLED Next
    /\ dpc = "finished" =>
        /\ calls = image_files
        /\ log[Len(log)] = Entry("INFO", "main", 0)

\* C1: for every listing and every combination of stage failures the driver
\* calls process_image once per entry, in order, no exception escapes, and
\* the run reaches the final "Traitement terminé" step.
C1_BatchCompletes == []C1_Isolation /\ <>(dpc = "finished")

\* C1 witness: the run is finished, an earlier image failed in some stage
\* and a later image went through all its stages.
C1_Witness ==
    /\ dpc = "finished"
    /\ \E i, j \in 1..idx :
        /\ i < j
        /\ Failed(i) /\ image_files[i] # TempDir
        /\ RanOk(j, "metadata")

UnreadableAbort ==
    /\ pc = "Aborted"
    /\ steps # <<>>
    /\ steps[Len(steps)] = Step(idx, "normalize", "unreadable")

NoArtifacts(i) ==
    /\ \A p \in DOMAIN previews : previews[p] # image_files[i]
    /\ task.output_file = NoPath
    /\ ~Ran(i, "sidecar")
    /\ ~Ran(i, "metadata")

\* C2 as stated: an invocation on an unreadable source ends in Aborted right
\* after Start with no preview, no sidecar, no metadata-tool invocation and
\* exactly one ERROR entry, on the RAW path and on the standard path alike.
C2_OneErrorOnUnreadable ==
    UnreadableAbort =>
        /\ StepsOf(steps, idx) = <<Step(idx, "normalize", "unreadable")>>
        /\ NoArtifacts(idx)
        /\ Cardinality(ErrorsOf(idx)) = 1

\* C2 amended: as above, but the number of ERROR entries is one on the
\* standard path and two on the RAW path (convert_raw_to_jpeg logs the
\* cause, process_image logs the failed conversion).
C2_ErrorsOnUnreadable ==
    UnreadableAbort =>
        /\ StepsOf(steps, idx) = <<Step(idx, "normalize", "unreadable")>>
        /\ NoArtifacts(idx)
        /\ Cardinality(ErrorsOf(idx)) = IF IsRaw(task.filename) THEN 2 ELSE 1
        /\ IsRaw(task.filename) =>
            /\ Cardinality(LogOf(idx, "ERROR", "convert_raw_to_jpeg")) = 1
            /\ Cardinality(LogOf(idx, "ERROR", "process_image")) = 1

\* C2 witness: an unreadable .cr3 source has been given up with two ERROR
\* entries and nothing written.
C2_Witness ==
    /\ UnreadableAbort
    /\ IsRaw(task.filename)
    /\ Cardinality(ErrorsOf(idx)) = 2
    /\ NoArtifacts(idx)

SidecarWritten == pc \in {"TaggedAndSaved", "MetadataWritten", "Done"}

\* C5 as stated: once the sidecar is written, its lines are the
\* comma-separated tags of the model's response, one whole tag per line.
C5_OneTagPerLine ==
    SidecarWritten =>
        Split(sidecars[task.output_file], NL) = Split(task.tags, ",")

StageOrder == <<"normalize", "encode", "query", "sidecar", "metadata">>

AllStagesOk(i) ==
    /\ Len(StepsOf(steps, i)) = Len(StageOrder)
    /\ ~Failed(i)

Sources == {i \in DOMAIN image_files : image_files[i] # TempDir}

OneJpegOneRaw ==
    /\ Cardinality(Sources) = 2
    /\ \E i, j \in Sources : ~IsRaw(image_files[i]) /\ IsRaw(image_files[j])

PreviewsOf(i) == {p \in DOMAIN previews : previews[p] = image_files[i]}

\* C6 as stated: a batch over one standard JPEG and one .cr3 file whose
\* stages all succeed ends with two distinct previews, two distinct sidecar
\* files and two metadata mutations, whatever the base names and the clock
\* readings are.
C6_TwoOfEach ==
    (dpc = "finished" /\ OneJpegOneRaw /\ \A i \in Sources : AllStagesOk(i)) =>
        /\ Cardinality(DOMAIN previews) = 2
        /\ Cardinality(DOMAIN sidecars) = 2
        /\ Len(metadata) = 2
        /\ \A i \in Sources :
            \E p \in PreviewsOf(i) :
                /\ p[1] = image_files[i].base
                /\ <<p[1], p[2], ".txt">> \in DOMAIN sidecars

\* C7: in every invocation the stages that run are a prefix of normalize,
\* encode, query, sidecar, metadata, each at most once and in that order,
\* and a failed normalization or a failed encoding is the last stage of
\* its invocation.
C7_StagesInOrder ==
    /\ \A k \in DOMAIN steps : k > 1 => steps[k - 1].img <= steps[k].img
    /\ \A i \in 1..idx :
        LET si == StepsOf(steps, i)
        IN  /\ Len(si) <= Len(StageOrder)
            /\ \A k \in DOMAIN si :
                /\ si[k].step = StageOrder[k]
                /\ (si[k].step \in {"normalize", "encode"} /\ si[k].outcome # "ok")
                        => k = Len(si)
    /\ \A i \in 1..idx :
        (Ran(i, "normalize") /\ ~RanOk(i, "normalize")) \/
        (Ran(i, "encode") /\ ~RanOk(i, "encode"))
            => /\ ~Ran(i, "query") /\ ~Ran(i, "sidecar") /\ ~Ran(i, "metadata")
               /\ (i = idx => pc = "Aborted" /\ task.output_file = NoPath)
               /\ \A m \in DOMAIN metadata :
                    metadata[m].path \notin PreviewsOf(i)

\* C7 witness: normalization succeeded, encoding failed, and the invocation
\* stopped there.
C7_Witness ==
    /\ pc = "Aborted"
    /\ StepsOf(steps, idx) =
        <<Step(idx, "normalize", "ok"), Step(idx, "encode", "unreadable")>>
    /\ dpc = "loop"

QueriedEmpty == Ran(idx, "query") /\ task.tags = <<>>
SidecarFault == \E k \in DOMAIN steps :
    steps[k] = Step(idx, "sidecar", "unwritable")

\* C10: after normalization and encoding succeeded and query_llava returned
\* the empty string (failed request or empty answer), the invocation goes on:
\* it is given up only if the sidecar write itself raises; otherwise the
\* sidecar is written empty, the metadata writer is invoked on the preview,
\* process_image logs no ERROR and ends in Done with its two closing INFO
\* entries.
C10_EmptyAnswerGoesOn ==
    QueriedEmpty =>
        /\ RanOk(idx, "normalize") /\ RanOk(idx, "encode")
        /\ pc \in {"Queried", "TaggedAndSaved", "MetadataWritten", "Done", "Aborted"}
        /\ pc = "Aborted" <=> SidecarFault
        /\ SidecarWritten => sidecars[task.output_file] = <<>>
        /\ pc \in {"MetadataWritten", "Done"} => Ran(idx, "metadata")
        /\ RanOk(idx, "metadata") =>
            metadata[Len(metadata)] = [path |-> task.jpeg_path, subject |-> <<>>]
        /\ ~SidecarFault => LogOf(idx, "ERROR", "process_image") = {}
        /\ pc = "Done" => Cardinality(LogOf(idx, "INFO", "process_image")) = 3
        /\ pc = "Queried" => ENABLED WriteSidecar
        /\ pc = "TaggedAndSaved" => ENABLED AddTags
        /\ pc = "MetadataWritten" => ENABLED Finish

\* C10 witness: the request failed, and the invocation still ended in Done
\* with an empty sidecar and a metadata-tool invocation.
C10_Witness ==
    /\ pc = "Done"
    /\ steps[Len(steps) - 2] = Step(idx, "query", "failed")
    /\ task.tags = <<>>
    /\ sidecars[task.output_file] = <<>>
    /\ Ran(idx, "metadata")

(***************************************************************************)
(* Properties of query_llava (SpecQuery)                                   *)
(***************************************************************************)
WellFormed(stream) ==
    \A i \in DOMAIN stream :
        stream[i].kind = "obj" /\ stream[i].keys = {"response", "done"}

DoneAt(stream) ==
    {i \in DOMAIN stream : stream[i].kind = "obj" /\ "done" \in stream[i].keys
                           /\ stream[i].done}

\* the position of the first object with done = true, Len + 1 if there is none
FirstDone(stream) ==
    IF DoneAt(stream) = {} THEN Len(stream) + 1
    ELSE CHOOSE i \in DoneAt(stream) : \A j \in DoneAt(stream) : i <= j

FragmentsUpTo(stream, n) ==
    Concat([i \in 1..(IF n > Len(stream) THEN Len(stream) ELSE n) |->
                stream[i].response])

\* an exception is raised inside the try block: by requests.post, by
\* iter_lines before the loop has left, or by json.loads on a line read
ErrorOccurs(stream, fault) ==
    \/ fault = 0
    \/ \E k \in 1..(Len(stream) + 1) :
        /\ k <= FirstDone(stream)
        /\ \/ fault = k
           \/ k <= Len(stream) /\ stream[k].kind = "garbage"

\* C3: on a stream of well-formed objects that arrives without an error,
\* query_llava returns the response fragments, in arrival order, of the
\* objects up to and including the first one with done = true (of all of
\* them if none has done = true), and logs its success.
C3_FragmentsUpToDone ==
    (q_pc = "returned" /\ WellFormed(q_stream) /\ ~ErrorOccurs(q_stream, q_fault)) =>
        /\ q_out.result = FragmentsUpTo(q_stream, FirstDone(q_stream))
        /\ q_out.log = <<"INFO">>

\* C3 witness: {A, done:false}, {B, done:true}, then one more object: "AB".
C3_Witness ==
    /\ q_pc = "returned"
    /\ q_fault = -1
    /\ q_stream = <<Obj(FragA, FALSE), Obj(FragB, TRUE), Obj(FragA, FALSE)>>
    /\ q_out.result = <<"A", "B">>

\* C4: whenever a connection, transport or JSON-decoding error occurs in
\* query_llava, before the first line or after fragments were accumulated,
\* it returns "", logs exactly one ERROR entry and no INFO entry, and raises
\* nothing.
C4_ErrorGivesEmpty ==
    (q_pc = "returned" /\ ErrorOccurs(q_stream, q_fault)) =>
        /\ q_out.result = <<>>
        /\ q_out.log = <<"ERROR">>
        /\ ~q_out.raised

\* C4 witness: a fragment was accumulated, the next line is not JSON, and
\* the call returned the empty string.
C4_Witness ==
    /\ q_pc = "returned"
    /\ Len(q_stream) >= 2
    /\ q_stream[1] = Obj(FragA, FALSE)
    /\ q_stream[2].kind = "garbage"
    /\ q_fault = -1
    /\ q_out.result = <<>>
    /\ q_out.log = <<"ERROR">>

(***************************************************************************)
(* Properties of clean_tags (SpecClean)                                    *)
(***************************************************************************)
\* C8 as stated: cleaning the comma-joined output of clean_tags(x) gives the
\* same set of tags as clean_tags(x).
C8_Idempotent == c_pc = "recleaned" => c_out2 = c_out

HairColorPrefix == HAIR_COLOR \o <<"_">>
StrippedPrefixes == {SCENE \o <<"_">>, LIGHTING \o <<"_">>, BACKGROUND \o <<"_">>}

DropPrefix(s, p) == SubSeq(s, Len(p) + 1, Len(s))

\* what C9 says one fragment becomes
ClaimedClean(fragment) ==
    LET t == Strip(fragment)
        u == IF StartsWith(t, HairColorPrefix)
             THEN HAIR \o <<"_">> \o DropPrefix(t, HairColorPrefix)
             ELSE IF \E p \in StrippedPrefixes : StartsWith(t, p)
             THEN DropPrefix(t, CHOOSE p \in StrippedPrefixes : StartsWith(t, p))
             ELSE t
    IN  Strip(Replace(u, <<"_">>, <<SP>>))

SingleFragment(x) == ~Contains(x, ",") /\ ~Contains(x, ":") /\ Strip(x) # <<>>

\* C9 as stated: a fragment beginning with hair_color_ has that prefix
\* collapsed to hair_ (hair_color_red becomes "hair red"), one beginning with
\* scene_, lighting_ or background_ loses that prefix, and nothing else
\* changes but underscores becoming spaces and the trimming.
C9_PrefixTable ==
    (c_pc = "cleaned" /\ SingleFragment(c_x)) => c_out = {ClaimedClean(c_x)}

====
